---- MODULE Spec2Model ----
(***************************************************************************)
(* Model of simulate_grn.py: construction of the gene regulatory network,  *)
(* the Euler-Maruyama integrator of one sample, lineage labelling and the  *)
(* driver loop of main.                                                    *)
(*                                                                         *)
(* Real numbers are fixed point: a value v of the program is the integer   *)
(* v * Unit (weights, latent values, thresholds), so 0.2 is 20 and -0.05   *)
(* is -5.  Gene indices are 0-based as in the program; sequences are       *)
(* 1-based, so the gene at position p of a list has index list[p].         *)
(***************************************************************************)
EXTENDS Integers, Sequences, FiniteSets, TLC

(* ---- bounds: the sizes of the program scaled down ---- *)
NProg == 2
NLigand == 2
NTarget == 2
NHousekeeping == 1
NOther == 1
n_lineages == 2
NRandomIters == 3
MaxSamples == 2
MaxCells == 2
MaxTimepoints == 3
MaxStepsPerTp == 2
MaxNeighborCells == 3

(* ---- program constants ---- *)
lineage_tfs_per == 2
(* one unit of a real value is 0.01; one unit of time is 1e-6 hours *)
Unit == 100
TimeUnit == 1000000
(* the ligand and receptor groups have the same size (20) in the program *)
NReceptor == NLigand

VARIABLES
    pc,             \* position in main (or in build_grn, assign_lineage)
    args,           \* the parsed command line
    rng,            \* the generator: its seed and the number of calls made
    draw_log,       \* history: the phase of every call made on rng
    rows, cols, data, edge_list, rand_iter, W,          \* build_grn
    ligand_effects, pair_map,                           \* signaling
    traj_per_sample, timepoints, steps_per_tp, dispersion,
    sample_idx, offset, morphogen, lineage_bias,        \* sample loop
    n_cells, x, snapshots, step, snapshot_idx, neighbor_idx,
    h, reg,         \* simulate_sample: hill(x) and h @ W of the last step
    written,        \* history: <<slot, steps done>> of every snapshot write
    snapshot_flat, counts, lineage_id, fate_probs,
    X_blocks, fate_blocks, obs_records, src_indices, tgt_indices, weights,
    transition, out_dir, files, error

ctlV == <<args, rng, draw_log>>
grnV == <<rows, cols, data, edge_list, rand_iter, W>>
setupV == <<ligand_effects, pair_map, traj_per_sample, timepoints,
            steps_per_tp, dispersion>>
loopV == <<sample_idx, offset, morphogen, lineage_bias>>
simV == <<n_cells, x, snapshots, step, snapshot_idx, neighbor_idx, h, reg,
          written>>
derivedV == <<snapshot_flat, counts, lineage_id, fate_probs>>
accV == <<X_blocks, fate_blocks, obs_records, src_indices, tgt_indices,
          weights>>
outV == <<transition, out_dir, files, error>>

vars == <<pc, ctlV, grnV, setupV, loopV, simV, derivedV, accV, outV>>

(* everything outside build_grn *)
notGrnV == <<ctlV, setupV, loopV, simV, derivedV, accV, outV>>

(* ---- generic helpers ---- *)
Range(s) == {s[i] : i \in DOMAIN s}

RECURSIVE Flatten(_)
Flatten(ss) == IF ss = <<>> THEN <<>> ELSE Head(ss) \o Flatten(Tail(ss))

RECURSIVE SumFrom(_, _)
SumFrom(s, i) == IF i > Len(s) THEN 0 ELSE s[i] + SumFrom(s, i + 1)

SumSeq(s) == SumFrom(s, 1)

(* python slice s[a:b] of a list, 0-based, clamped to the list *)
Slice(s, a, b) ==
    LET lo == IF a < Len(s) THEN a ELSE Len(s)
        hi == IF b < Len(s) THEN b ELSE Len(s)
    IN  IF hi <= lo THEN <<>> ELSE [p \in 1..(hi - lo) |-> s[lo + p]]

Min(a, b) == IF a < b THEN a ELSE b
Max(a, b) == IF a > b THEN a ELSE b

(* ---- build_gene_names ---- *)
(* the calls groups[key] = add_group(prefix, count), with the key that      *)
(* add_group itself stores: prefix.rstrip("_").lower()                      *)
GroupSpec ==
    << <<"TF_PROG_", NProg, "prog", "tf_prog">>,
       <<"TF_LIN", n_lineages * lineage_tfs_per, "lineage", "tf_lin">>,
       <<"LIG_", NLigand, "ligand", "lig">>,
       <<"REC_", NReceptor, "receptor", "rec">>,
       <<"TARG_", NTarget, "target", "targ">>,
       <<"HK_", NHousekeeping, "housekeeping", "hk">>,
       <<"OTHER_", NOther, "other", "other">> >>

(* start index of the k-th group: len(names) when add_group is called *)
RECURSIVE GroupStart(_)
GroupStart(k) == IF k = 1 THEN 0 ELSE GroupStart(k - 1) + GroupSpec[k - 1][2]

(* add_group: the indices start .. start+count-1 *)
add_group(k) == [i \in 1..GroupSpec[k][2] |-> GroupStart(k) + i - 1]

GroupKeys == {GroupSpec[k][3] : k \in DOMAIN GroupSpec}

groups == [key \in GroupKeys \cup {GroupSpec[k][4] : k \in DOMAIN GroupSpec} |->
             add_group(CHOOSE k \in DOMAIN GroupSpec :
                          GroupSpec[k][3] = key \/ GroupSpec[k][4] = key)]

(* names[idx] is prefix followed by the 1-based position in the group *)
gene_names ==
    Flatten([k \in DOMAIN GroupSpec |->
               [i \in 1..GroupSpec[k][2] |-> <<GroupSpec[k][1], i>>]])

n_genes == Len(gene_names)
Genes == 0..(n_genes - 1)
NameOf(g) == gene_names[g + 1]

(* ---- build_grn ---- *)
(* add_edge: the adjacency coordinate is (row = dst, col = src) *)
add_edge(st, src, dst, weight, label) ==
    [rows |-> Append(st.rows, dst),
     cols |-> Append(st.cols, src),
     data |-> Append(st.data, weight),
     edge_list |-> Append(st.edge_list,
                      [source |-> NameOf(src), target |-> NameOf(dst),
                       weight |-> weight, type |-> label])]

EmptyGrn == [rows |-> <<>>, cols |-> <<>>, data |-> <<>>, edge_list |-> <<>>]

(* a run of add_edge calls, each request <<src, dst, weight, label>>: every *)
(* call appends one entry to each of the four lists                         *)
AddEdges(st, reqs) ==
    LET one == [i \in 1..Len(reqs) |->
                  add_edge(EmptyGrn, reqs[i][1], reqs[i][2], reqs[i][3],
                           reqs[i][4])]
    IN  [rows |-> st.rows \o [i \in 1..Len(reqs) |-> one[i].rows[1]],
         cols |-> st.cols \o [i \in 1..Len(reqs) |-> one[i].cols[1]],
         data |-> st.data \o [i \in 1..Len(reqs) |-> one[i].data[1]],
         edge_list |-> st.edge_list
                       \o [i \in 1..Len(reqs) |-> one[i].edge_list[1]]]
CurGrn == [rows |-> rows, cols |-> cols, data |-> data, edge_list |-> edge_list]

prog == groups["prog"]
lineage == groups["lineage"]
ligands == groups["ligand"]
receptors == groups["receptor"]
targets == groups["target"]

(* lineage[lin_block * lineage_tfs_per : (lin_block + 1) * lineage_tfs_per] *)
TfIndices(lin_block) ==
    Slice(lineage, lin_block * lineage_tfs_per, (lin_block + 1) * lineage_tfs_per)

(* nested loop "for a in A: for b in B: add_edge(a, b, weight, label)" *)
Cross(A, B, weight, label) ==
    Flatten([i \in 1..Len(A) |-> [j \in 1..Len(B) |-> <<A[i], B[j], weight, label>>]])

(* the same with the inner loop variable as the source of the edge *)
CrossRev(A, B, weight, label) ==
    Flatten([i \in 1..Len(A) |-> [j \in 1..Len(B) |-> <<B[j], A[i], weight, label>>]])

(* lines 67-72: self activation and mutual activation of the program TFs *)
ProgRequests(mut) ==
    Flatten([i \in 1..Len(prog) |->
        << <<prog[i], prog[i], 20, "prog_self">> >> \o
        SelectSeq([j \in 1..Len(prog) |->
                     <<prog[j], prog[i], 35 + mut[<<prog[i], prog[j]>>],
                       "prog_mutual">>],
                  LAMBDA r : r[1] # prog[i])])

(* lines 74-76 *)
ProgToLineageRequests ==
    CrossRev(lineage, prog, 15, "prog_to_lineage")

(* lines 78-100, one lineage block *)
BlockRequests(lin_block) ==
    LET tf == TfIndices(lin_block)
        others == SelectSeq([b \in 1..n_lineages |-> b - 1],
                            LAMBDA b : b # lin_block)
    IN  [p \in 1..Len(tf) |-> <<tf[p], tf[p], 60, "lineage_self">>]
        \o (IF Len(tf) = 2
            THEN << <<tf[1], tf[2], 40, "lineage_partner">>,
                    <<tf[2], tf[1], 40, "lineage_partner">> >>
            ELSE <<>>)
        \o Flatten([p \in 1..Len(tf) |->
              Flatten([q \in 1..Len(others) |->
                 [o \in 1..Len(TfIndices(others[q])) |->
                    <<TfIndices(others[q])[o], tf[p], -50, "lineage_inhibit">>]])])
        \o Cross(tf, prog, -30, "lineage_repress_prog")

LineageRequests == Flatten([b \in 1..n_lineages |-> BlockRequests(b - 1)])

(* np.array_split(s, n)[k], k 0-based: the first Len(s) % n parts are one longer *)
ArraySplit(s, n, k) ==
    LET q == Len(s) \div n
        r == Len(s) % n
        start == k * q + Min(k, r)
        size == q + (IF k < r THEN 1 ELSE 0)
    IN  Slice(s, start, start + size)

(* lines 102-109 and 111-118 *)
SplitRequests(members, weight, label) ==
    Flatten([b \in 1..n_lineages |->
        Cross(TfIndices(b - 1), ArraySplit(members, n_lineages, b - 1),
              weight, label)])

TargetRequests == SplitRequests(targets, 70, "lineage_to_target")
LigandRequests == SplitRequests(ligands, 60, "lineage_to_ligand")

(* lines 120-122 *)
ReceptorRequests ==
    Cross(prog, receptors, 20, "prog_to_receptor")

(* every scripted rule, in program order *)
ScriptedGrn(mut) ==
    AddEdges(EmptyGrn,
             ProgRequests(mut) \o ProgToLineageRequests \o LineageRequests
             \o TargetRequests \o LigandRequests \o ReceptorRequests)

(* a loop body that keeps the self loop it drew *)
RandomIterationNoSkip(st, src, dst, w) == add_edge(st, src, dst, w, "random")

(* lines 124-129, one iteration: a draw with src = dst adds nothing *)
RandomIteration(st, src, dst, w) ==
    IF src = dst THEN st ELSE add_edge(st, src, dst, w, "random")

(* the positions of the entries stored at coordinate (r, c) *)
EntriesAt(rs, cs, r, c) == SelectSeq([i \in 1..Len(rs) |-> i],
                                     LAMBDA i : rs[i] = r /\ cs[i] = c)

(* a materialisation in which a later entry replaces an earlier one *)
csr_overwrite(rs, cs, ds) ==
    [r \in Genes |-> [c \in Genes |->
        LET at == EntriesAt(rs, cs, r, c)
        IN  IF at = <<>> THEN 0 ELSE ds[at[Len(at)]]]]

(* line 131: csr_matrix((data, (rows, cols))) sums the entries that share a *)
(* coordinate                                                               *)
csr_matrix(rs, cs, ds) ==
    [r \in Genes |-> [c \in Genes |->
        LET at == EntriesAt(rs, cs, r, c)
        IN  SumSeq([k \in 1..Len(at) |-> ds[at[k]]])]]

NoMatrix == [r \in {} |-> 0]

(* ---- specification of build_grn ---- *)
MutualKeys == {<<prog[i], prog[j]>> : i, j \in 1..Len(prog)}

(* the outcomes of the rng.random() draws the model explores: all low, all *)
(* high, and one that differs from pair to pair                            *)
MutualOutcomes ==
    { [k \in MutualKeys |-> 0], [k \in MutualKeys |-> 9],
      [k \in MutualKeys |-> (3 * k[1] + k[2]) % 10] }

(* the genes and weights the random draws range over in the model *)
DrawGenes == {0, NProg - 1}
RandomWeights == {-5, 3}

None == "None"

(* neighbor_idx = None: global mean-field signaling *)
NoNeighbors == <<>>

(* the state of main's locals before any of them is assigned *)
Unassigned ==
    /\ rows = <<>> /\ cols = <<>> /\ data = <<>> /\ edge_list = <<>>
    /\ rand_iter = 0
    /\ W = NoMatrix
    /\ ligand_effects = <<>> /\ pair_map = <<>>
    /\ traj_per_sample = <<>> /\ timepoints = <<>> /\ steps_per_tp = 0
    /\ dispersion = <<>>
    /\ sample_idx = 0 /\ offset = 0 /\ morphogen = <<>> /\ lineage_bias = <<>>
    /\ n_cells = 0 /\ x = <<>> /\ snapshots = <<>> /\ step = 0
    /\ snapshot_idx = 0 /\ neighbor_idx = NoNeighbors /\ h = <<>> /\ reg = <<>>
    /\ written = <<>>
    /\ snapshot_flat = <<>> /\ counts = <<>> /\ lineage_id = <<>>
    /\ fate_probs = <<>>
    /\ X_blocks = <<>> /\ fate_blocks = <<>> /\ obs_records = <<>>
    /\ src_indices = <<>> /\ tgt_indices = <<>> /\ weights = <<>>
    /\ transition = <<>> /\ out_dir = FALSE /\ files = <<>> /\ error = None
    /\ draw_log = <<>>

InitGrn ==
    /\ pc = "prog"
    /\ args = None
    /\ rng = [seed |-> 0, calls |-> 0]
    /\ Unassigned

SetGrn(st) ==
    /\ rows' = st.rows /\ cols' = st.cols /\ data' = st.data
    /\ edge_list' = st.edge_list

ProgEdges ==
    /\ pc = "prog"
    /\ \E mut \in MutualOutcomes :
          SetGrn(AddEdges(CurGrn, ProgRequests(mut)))
    /\ pc' = "prog_to_lineage"
    /\ UNCHANGED <<rand_iter, W, notGrnV>>

ScriptedStep(at, reqs, next) ==
    /\ pc = at
    /\ SetGrn(AddEdges(CurGrn, reqs))
    /\ pc' = next
    /\ UNCHANGED <<rand_iter, W, notGrnV>>

ProgToLineageEdges == ScriptedStep("prog_to_lineage", ProgToLineageRequests, "lineage")
LineageEdges == ScriptedStep("lineage", LineageRequests, "target")
TargetEdges == ScriptedStep("target", TargetRequests, "ligand")
LigandEdges == ScriptedStep("ligand", LigandRequests, "receptor")
ReceptorEdges == ScriptedStep("receptor", ReceptorRequests, "random")

RandomEdge ==
    /\ pc = "random"
    /\ rand_iter < NRandomIters
    /\ \E src \in DrawGenes, dst \in DrawGenes, w \in RandomWeights :
          SetGrn(RandomIteration(CurGrn, src, dst, w))
    /\ rand_iter' = rand_iter + 1
    /\ UNCHANGED <<pc, W, notGrnV>>

Materialize ==
    /\ pc = "random"
    /\ rand_iter = NRandomIters
    /\ W' = csr_matrix(rows, cols, data)
    /\ pc' = "built"
    /\ UNCHANGED <<rows, cols, data, edge_list, rand_iter, notGrnV>>

NextGrn ==
    \/ ProgEdges
    \/ ProgToLineageEdges
    \/ LineageEdges
    \/ TargetEdges
    \/ LigandEdges
    \/ ReceptorEdges
    \/ RandomEdge
    \/ Materialize

SpecGrn == InitGrn /\ [][NextGrn]_vars

(* ---- the random generator ---- *)
(* np.random.default_rng(seed): the stream is a function of the seed, the   *)
(* position of the call in the stream and the element drawn by the call;    *)
(* Mix stands for the generator's bit stream, reduced to 0..m-1             *)
Mix(seed, call, e, m) ==
    ((seed * 31) + (call * 17) + (e * 13) + ((call * e) % 7)
       + ((seed * (e + 1)) % 5)) % m

(* element e of the k-th call from now *)
DrawAt(k, e, m) == Mix(rng.seed, rng.calls + k, e, m)

(* a standard normal deviate, in whole standard deviations -3..3 *)
NormalAt(k, e) == DrawAt(k, e, 7) - 3

Tags(n, tag) == [i \in 1..n |-> tag]

(* n calls were made on the generator, in the phases tags *)
Consume(tags) ==
    /\ rng' = [rng EXCEPT !.calls = @ + Len(tags)]
    /\ draw_log' = draw_log \o tags

(* ---- build_grn as main calls it: the draws come from the stream ---- *)
(* position in the stream of the rng.random() call for the pair (i, j) *)
MutualCall(i, j) == (i - 1) * (Len(prog) - 1) + (IF j > i THEN j - 2 ELSE j - 1)

StreamMutual(seed, base) ==
    [k \in MutualKeys |->
        LET i == CHOOSE p \in 1..Len(prog) : prog[p] = k[1]
            j == CHOOSE p \in 1..Len(prog) : prog[p] = k[2]
        IN  IF i = j THEN 0 ELSE Mix(seed, base + MutualCall(i, j), 0, 10)]

(* lines 124-129 on the stream: two calls, and a third when src # dst *)
RECURSIVE StreamRandomLoop(_, _, _, _)
StreamRandomLoop(st, seed, call, it) ==
    IF it = NRandomIters THEN [grn |-> st, calls |-> call]
    ELSE LET src == Mix(seed, call, 0, n_genes)
             dst == Mix(seed, call + 1, 0, n_genes)
             w == Mix(seed, call + 2, 0, 11) - 5
         IN  StreamRandomLoop(RandomIteration(st, src, dst, w), seed,
                              IF src = dst THEN call + 2 ELSE call + 3, it + 1)

build_grn(seed, base) ==
    StreamRandomLoop(ScriptedGrn(StreamMutual(seed, base)), seed,
                     base + Len(prog) * (Len(prog) - 1), 0)

(* lines 133-159: bias, decay and noise by group *)
GroupOf(g) == CHOOSE key \in GroupKeys : g \in Range(groups[key])

bias == [g \in Genes |->
    [housekeeping |-> 60, ligand |-> 20, receptor |-> 20, target |-> 5,
     prog |-> 5, lineage |-> 5, other |-> 10][GroupOf(g)]]

decay == [g \in Genes |->
    [housekeeping |-> 10, ligand |-> 20, receptor |-> 20, target |-> 20,
     prog |-> 30, lineage |-> 30, other |-> 20][GroupOf(g)]]

noise == [g \in Genes |->
    [housekeeping |-> 5, ligand |-> 6, receptor |-> 6, target |-> 8,
     prog |-> 10, lineage |-> 10, other |-> 8][GroupOf(g)]]

(* ---- build_ligand_receptor_effects ---- *)
n_pairs == Min(Len(ligands), Len(receptors))

PairMap == [idx \in 1..n_pairs |->
              [pair_id |-> idx - 1, ligand |-> ligands[idx],
               receptor |-> receptors[idx]]]

(* B[tf, pair_id] = 0.6 for the TFs of lineage pair_id % n_lineages *)
LigandEffects ==
    [g \in Genes |-> [p \in 0..(n_pairs - 1) |->
        IF g \in Range(TfIndices(p % n_lineages)) THEN 60 ELSE 0]]

(* ---- fixed point arithmetic ---- *)
(* the product of two values; floats round to nearest, the model rounds down *)
Mul(a, b) == (a * b) \div Unit

RECURSIVE Pow(_, _)
Pow(b, n) == IF n = 0 THEN 1 ELSE b * Pow(b, n - 1)

(* the largest r with r * r <= v, by bisection on lo..hi *)
RECURSIVE ISqrtIn(_, _, _)
ISqrtIn(v, lo, hi) ==
    IF lo >= hi THEN lo
    ELSE LET mid == (lo + hi + 1) \div 2
         IN  IF mid * mid <= v THEN ISqrtIn(v, mid, hi) ELSE ISqrtIn(v, lo, mid - 1)

(* dt, given in time units, as a value in units *)
DtValue(dt) == (dt * Unit) \div TimeUnit

(* np.sqrt(dt) as a value in units *)
SqrtDt(dt) == ISqrtIn(DtValue(dt) * Unit, 0, 100 * Unit)

(* a clip that bounds the value from below only *)
clip_low(v, lo, hi) == Max(v, lo)

(* np.clip(v, lo, hi) = minimum(maximum(v, lo), hi) *)
clip(v, lo, hi) == Min(Max(v, lo), hi)

(* ---- hill ---- *)
(* x^n / (k^n + x^n + 1e-8); n is a whole number here, and the 1e-8 is one  *)
(* unit of the denominator's scale                                          *)
hill(v, k, n) ==
    LET x_pos == Max(v, 0)
        x_pow == Pow(x_pos, n)
        k_pow == Pow(k, n)
    IN  (Unit * x_pow) \div (k_pow + x_pow + 1)

(* ---- simulate_sample ---- *)
(* the adjacency used as stored, row = dst *)
NoTranspose(M) == M

(* line 228: W = grn["W"].transpose().toarray() *)
Transpose(M) == [r \in Genes |-> [c \in Genes |-> M[c][r]]]

(* lines 234-252: mean and standard deviation of the initial value, and the *)
(* position of the group's rng.normal call among the seven                  *)
InitMean == [prog |-> 150, lineage |-> 10, ligand |-> 20, receptor |-> 20,
             target |-> 10, housekeeping |-> 100, other |-> 10]
InitStd == [prog |-> 10, lineage |-> 5, ligand |-> 5, receptor |-> 5,
            target |-> 5, housekeeping |-> 10, other |-> 5]
InitCall == [prog |-> 0, lineage |-> 1, ligand |-> 2, receptor |-> 3,
             target |-> 4, housekeeping |-> 5, other |-> 6]

(* lines 233-253: the drawn initial state, clipped *)
InitialX(nc, x_max) ==
    [c \in 0..(nc - 1) |-> [g \in Genes |->
        clip(InitMean[GroupOf(g)]
               + InitStd[GroupOf(g)] * NormalAt(InitCall[GroupOf(g)], c * n_genes + g),
             0, x_max)]]

(* lines 256-257 *)
InitialSnapshots(nc, ntp, x0) ==
    [c \in 0..(nc - 1) |-> [t \in 0..(ntp - 1) |->
        IF t = 0 THEN x0[c] ELSE [g \in Genes |-> 0]]]

(* a shift that leaves a choice equal to i where it is *)
SkipSelfAfter(choices, i) ==
    [j \in DOMAIN choices |->
        IF choices[j] > i THEN choices[j] + 1 ELSE choices[j]]

(* line 273: np.where(choices >= i, choices + 1, choices) *)
SkipSelf(choices, i) ==
    [j \in DOMAIN choices |->
        IF choices[j] >= i THEN choices[j] + 1 ELSE choices[j]]

(* line 272: every value rng.choice(n, size=k, replace=False) can return:   *)
(* k pairwise different members of 0..n-1, in any order                     *)
ChoiceOutcomes(n, k) ==
    {s \in [1..k -> 0..(n - 1)] :
        \A a, b \in 1..k : a # b => s[a] # s[b]}

(* lines 270-274: every array the loop over the cells can fill *)
NeighborOutcomes(nc, k) ==
    {[i \in 0..(nc - 1) |-> SkipSelf(ch[i], i)] :
        ch \in [0..(nc - 1) -> ChoiceOutcomes(nc - 1, k)]}

(* lines 269-274: rng.choice(n_cells - 1, size=k, replace=False) for cell i, *)
(* then the indices >= i shifted by one; the draw is a rotation of           *)
(* 0..n_cells-2 chosen by the stream                                         *)
NeighborChoices(nc, k, i) ==
    LET r == DrawAt(i, 0, nc - 1)
        choices == [j \in 1..k |-> ((r + j) - 1) % (nc - 1)]
    IN  SkipSelf(choices, i)

NeighborIdx(nc, mode, nk) ==
    IF mode = "random" /\ ~(nk <= 0 \/ nc <= 1)
    THEN [i \in 0..(nc - 1) |-> NeighborChoices(nc, Min(nk, nc - 1), i)]
    ELSE NoNeighbors

(* line 277 *)
HillOf(xx) == [c \in DOMAIN xx |-> [g \in Genes |->
                  hill(xx[c][g], args.hill_k, args.hill_n)]]

(* line 278, first term: (h @ W)[c][g], W the transposed adjacency; the    *)
(* product of two values in units is in units of 1 / Unit^2                *)
MatMul(hh, Wt) ==
    [c \in DOMAIN hh |-> [g \in Genes |->
        SumSeq([p \in 1..n_genes |-> hh[c][p - 1] * Wt[p - 1][g]])]]

(* lines 281 and 284: np.maximum(x[:, lig_idx], 0.0).mean(axis=0) *)
GlobalLigandMean(xx, nc) ==
    [p \in 1..Len(ligands) |->
        SumSeq([c \in 1..nc |-> Max(xx[c - 1][ligands[p]], 0)]) \div nc]

(* line 283: the mean over each cell's neighbors *)
NeighborLigandMean(xx, nidx) ==
    [c \in DOMAIN xx |-> [p \in 1..Len(ligands) |->
        SumSeq([j \in 1..Len(nidx[c]) |-> Max(xx[nidx[c][j]][ligands[p]], 0)])
            \div Len(nidx[c])]]

(* lines 280-285: the ligand availability seen by cell c for pair p *)
LigandMean(xx, nc, nidx, mix) ==
    IF nidx = NoNeighbors
    THEN [c \in DOMAIN xx |-> GlobalLigandMean(xx, nc)]
    ELSE [c \in DOMAIN xx |-> [p \in 1..Len(ligands) |->
            Mul(mix, NeighborLigandMean(xx, nidx)[c][p])
            + Mul(Unit - mix, GlobalLigandMean(xx, nc)[p])]]

(* lines 286-288: signal.dot(ligand_effects.T), in units *)
GSignal(xx, nc, nidx, mix, B) ==
    LET lm == LigandMean(xx, nc, nidx, mix)
        signal == [c \in DOMAIN xx |-> [p \in 1..Len(receptors) |->
                     Mul(hill(xx[c][receptors[p]], args.hill_k, args.hill_n),
                         lm[c][p])]]
    IN  [c \in DOMAIN xx |-> [g \in Genes |->
            SumSeq([p \in 1..n_pairs |-> signal[c][p] * B[g][p - 1]]) \div Unit]]

(* lines 277-293: the state after one step, given hill(x) @ W and the call  *)
(* of rng.normal that draws the noise                                       *)
StepX(xx, rr, nc, nidx, B, morph) ==
    LET gs == GSignal(xx, nc, nidx, args.neighbor_mix, B)
        sq == SqrtDt(args.dt)
    IN  [c \in DOMAIN xx |-> [g \in Genes |->
            LET f == rr[c][g] \div Unit + bias[g] - Mul(decay[g], xx[c][g])
                deriv == f + gs[c][g] + morph[g]
                noise_term == Mul(noise[g] * NormalAt(0, c * n_genes + g), sq)
            IN  clip(xx[c][g] + Mul(DtValue(args.dt), deriv) + noise_term,
                     0, args.x_max)]]

(* ---- latent_to_counts ---- *)
(* log(1 + e^v) for v >= 0 is v plus a correction that decays from log 2;  *)
(* the correction is tabulated per whole unit of v                          *)
SoftplusCorrection == <<69, 31, 13, 5, 2, 1>>

Softplus(v) ==
    IF v \div Unit < Len(SoftplusCorrection)
    THEN v + SoftplusCorrection[v \div Unit + 1] ELSE v

(* 1 / (1 + exp(t)), tabulated on the sign and size of t *)
Logistic(t) ==
    IF t <= -2 * Unit THEN 88
    ELSE IF t < 0 THEN 62
    ELSE IF t = 0 THEN 50
    ELSE IF t < 2 * Unit THEN 38
    ELSE 12

(* lines 309-318; the gamma, poisson and uniform draws are the next three   *)
(* calls on the stream                                                      *)
latent_to_counts(flat, disp, dropout_mid, dropout_scale) ==
    [r \in DOMAIN flat |-> [g \in Genes |->
        LET e == (r - 1) * n_genes + g
            mu == Softplus(flat[r][g])
            scale == (mu * Unit) \div disp[g]
            lam == Mul(Mul(disp[g], scale), 50 + 50 * DrawAt(0, e, 3))
            count == Max(0, lam \div Unit + DrawAt(1, e, 3) - 1)
            drop_prob == Logistic(((mu - dropout_mid) * Unit) \div dropout_scale)
            drop_mask == DrawAt(2, e, Unit) < drop_prob
        IN  IF drop_mask THEN 0 ELSE count]]

(* ---- assign_lineage ---- *)
(* line 333: the mean latent value of the lineage's TFs, rounded down *)
Scores(flat, lineage_indices, nl, tfs_per) ==
    [r \in DOMAIN flat |-> [l \in 0..(nl - 1) |->
        LET tf == Slice(lineage_indices, l * tfs_per, (l + 1) * tfs_per)
        IN  SumSeq([p \in 1..Len(tf) |-> flat[r][tf[p]]]) \div Len(tf)]]

RowMax(row) == CHOOSE m \in Range(row) : \A v \in Range(row) : v <= m

(* np.argmax: the first index that holds the maximum *)
ArgMax(row) ==
    CHOOSE l \in DOMAIN row :
        /\ row[l] = RowMax(row)
        /\ \A k \in DOMAIN row : row[k] = RowMax(row) => l <= k

(* a threshold test that also zeroes a score equal to the threshold *)
MaskAtOrBelow(max_score, threshold) == max_score <= threshold

(* line 337: the rows whose label is reset to 0 *)
Mask(max_score, threshold) == max_score < threshold

(* lines 335-337 *)
LineageId(scores, threshold) ==
    [r \in DOMAIN scores |->
        IF Mask(RowMax(scores[r]), threshold) THEN 0 ELSE ArgMax(scores[r]) + 1]

(* e^(-d) for d >= 0, tabulated *)
ExpNeg(d) ==
    IF d = 0 THEN 100
    ELSE IF d <= 25 THEN 78
    ELSE IF d <= 50 THEN 61
    ELSE IF d <= 100 THEN 37
    ELSE IF d <= 200 THEN 14
    ELSE IF d <= 300 THEN 5
    ELSE 1

(* lines 339-340: softmax of the scores shifted by their maximum *)
Probs(scores) ==
    [r \in DOMAIN scores |->
        LET exp_scores == [l \in DOMAIN scores[r] |->
                              ExpNeg(RowMax(scores[r]) - scores[r][l])]
            total == SumSeq([p \in 1..Cardinality(DOMAIN scores[r]) |->
                                exp_scores[p - 1]])
        IN  [l \in DOMAIN scores[r] |-> (exp_scores[l] * Unit) \div total]]

assign_lineage(flat, lineage_indices, nl, tfs_per, threshold) ==
    LET scores == Scores(flat, lineage_indices, nl, tfs_per)
    IN  [lineage_id |-> LineageId(scores, threshold), probs |-> Probs(scores)]

(* ---- main: configuration ---- *)
Abs(v) == IF v < 0 THEN -v ELSE v

(* 1e-6 hours in time units *)
Tolerance == TimeUnit \div 1000000

(* line 393: int(hours_per_timepoint / dt) for positive operands *)
StepsPerTp(hours, dt) == hours \div dt

(* a check that accepts every step size *)
AcceptsAnyStep(hours, dt) == FALSE

(* line 394: the condition under which main raises ValueError *)
NotDivisible(hours, dt) == Abs(StepsPerTp(hours, dt) * dt - hours) > Tolerance

(* lines 380-385 *)
TrajPerSample(total_cells, n_timepoints, n_samples) ==
    LET total_trajectories == total_cells \div n_timepoints
        base_traj == total_trajectories \div n_samples
        remainder == total_trajectories % n_samples
    IN  [i \in 1..n_samples |-> base_traj + (IF i - 1 < remainder THEN 1 ELSE 0)]

(* lines 388-392: np.arange(0, n * hours, hours) for hours > 0 *)
Timepoints(n_timepoints, hours) == [k \in 1..n_timepoints |-> (k - 1) * hours]

(* line 397: exp(1 + 0.3 z) for z = -3..3 *)
LogNormal == <<111, 149, 201, 272, 367, 495, 669>>

Dispersion == [g \in Genes |-> LogNormal[NormalAt(0, g) + 4]]

(* line 411: a point of the simplex with positive coordinates *)
Dirichlet ==
    LET raw == [l \in 0..(n_lineages - 1) |-> 1 + DrawAt(0, l, 4)]
        total == SumSeq([p \in 1..n_lineages |-> raw[p - 1]])
    IN  [l \in 0..(n_lineages - 1) |-> (raw[l] * Unit) \div total]

(* a loop that leaves the bias on the first lineage's TFs only *)
RECURSIVE MorphogenFirstOnly(_, _, _, _)
MorphogenFirstOnly(m, lb, scale, lin_idx) ==
    [g \in Genes |-> IF g \in Range(TfIndices(0)) THEN Mul(scale, lb[0]) ELSE 0]

(* lines 412-416: the loop over the lineages, from lin_idx on *)
RECURSIVE MorphogenLoop(_, _, _, _)
MorphogenLoop(m, lb, scale, lin_idx) ==
    IF lin_idx = n_lineages THEN m
    ELSE MorphogenLoop(
            [g \in Genes |-> IF g \in Range(TfIndices(lin_idx))
                             THEN Mul(scale, lb[lin_idx]) ELSE m[g]],
            lb, scale, lin_idx + 1)

(* lines 410-416 *)
Morphogen(lb, scale) == MorphogenLoop([g \in Genes |-> 0], lb, scale, 0)

(* a snapshot taken before the step instead of after it *)
SnapshotDueBefore(st, spt) == st % spt = 0

(* line 295: (step + 1) % steps_per_tp == 0 *)
SnapshotDue(st, spt) == (st + 1) % spt = 0

(* the dropout draw made ahead of the count draws *)
DropoutFirstTags(s) == << <<"dropout", s>>, <<"count", s>>, <<"count", s>> >>

(* lines 312-316: rng.gamma, rng.poisson, rng.random in this order *)
CountTags(s) == << <<"count", s>>, <<"count", s>>, <<"dropout", s>> >>

TotalSteps == (Len(timepoints) - 1) * steps_per_tp

(* line 436: snapshots.reshape(n_cells * n_timepoints, n_genes) *)
Reshape(snaps, nc, ntp) ==
    [r \in 1..(nc * ntp) |-> snaps[(r - 1) \div ntp][(r - 1) % ntp]]

(* lines 455-476: the rows of the sample's frame; traj is traj_ids of line  *)
(* 455, which the program computes beside the frame                         *)
ObsRows(nc, ntp, s, tps, lid) ==
    [r \in 1..(nc * ntp) |->
        [sample |-> s,
         traj |-> (r - 1) \div ntp,
         timepoint_idx |-> (r - 1) % ntp,
         timepoint |-> tps[((r - 1) % ntp) + 1],
         lineage_id |-> lid[r],
         cell_type |-> IF lid[r] = 0 THEN <<"progenitor">> ELSE <<"lin", lid[r]>>]]

(* an edge list that also links the last row of a trajectory to the next row *)
SrcRowsAll(nc, ntp, off) == [r \in 1..(nc * ntp) |-> off + r - 1]

(* lines 501-504: csr_matrix((weights, (src, tgt)), shape=(total, total)) *)
(* lines 479-480: offset + np.where(time_idx < n_timepoints - 1)[0] *)
SrcRows(nc, ntp, off) ==
    LET time_idx == [r \in 1..(nc * ntp) |-> (r - 1) % ntp]
        local == SelectSeq([r \in 1..(nc * ntp) |-> r - 1],
                           LAMBDA r : time_idx[r + 1] < ntp - 1)
    IN  [i \in 1..Len(local) |-> off + local[i]]

TransitionMatrix(total, srcs, tgts, ws) ==
    [r \in 0..(total - 1) |-> [c \in 0..(total - 1) |->
        LET at == EntriesAt(srcs, tgts, r, c)
        IN  SumSeq([k \in 1..Len(at) |-> ws[at[k]]])]]

(* ======================= main ======================= *)
Seeds == {0, 1, 2}

(* total_cells that gives the largest sample MaxCells trajectories and     *)
(* leaves a remainder in both divisions of lines 380-382                    *)
TotalCellsFor(ns, ntp) == (MaxCells * ns - 1) * ntp + (ntp - 1)

(* hours_per_timepoint and dt: whole multiples of dt = 1 hour, a quarter-  *)
(* hour step, one and a half steps, and one step plus 1e-6 hours            *)
TimeCases ==
    {<<k * TimeUnit, TimeUnit>> : k \in 1..MaxStepsPerTp}
    \cup {<<TimeUnit \div 2, TimeUnit \div 4>>,
          <<TimeUnit + TimeUnit \div 2, TimeUnit>>,
          <<TimeUnit + Tolerance, TimeUnit>>}

(* x_max with the neighbor mode, neighbor_k and neighbor_mix *)
ModeCases == {<<600, "none", 10, 100>>, <<100, "random", 1, 50>>,
              <<600, "random", 0, 100>>}

ArgsSet ==
    {[seed |-> sd, total_cells |-> TotalCellsFor(ns, ntp), n_samples |-> ns,
      n_timepoints |-> ntp, hours_per_timepoint |-> tc[1], dt |-> tc[2],
      branch_timepoint_index |-> 1, holdout_lineage |-> n_lineages,
      lineage_threshold |-> 120, dropout_mid |-> 100, dropout_scale |-> 60,
      x_max |-> mc[1], hill_k |-> 100, hill_n |-> 2, morphogen_scale |-> 60,
      neighbor_mode |-> mc[2], neighbor_k |-> mc[3], neighbor_mix |-> mc[4]] :
        sd \in Seeds, ns \in {1, MaxSamples}, ntp \in 1..MaxTimepoints,
        tc \in TimeCases, mc \in ModeCases}

InitMain ==
    /\ pc = "start"
    /\ args \in ArgsSet
    /\ rng = [seed |-> args.seed, calls |-> 0]
    /\ Unassigned

(* lines 370-375; the generator of line 368 exists from the start *)
BuildGrn ==
    /\ pc = "start"
    /\ LET built == build_grn(args.seed, 0)
       IN  /\ SetGrn(built.grn)
           /\ W' = csr_matrix(built.grn.rows, built.grn.cols, built.grn.data)
           /\ rng' = [seed |-> args.seed, calls |-> built.calls]
           /\ draw_log' = Tags(built.calls, <<"network">>)
    /\ rand_iter' = NRandomIters
    /\ pc' = "signaling"
    /\ UNCHANGED <<args, setupV, loopV, simV, derivedV, accV, outV>>

(* lines 376-378 *)
BuildSignaling ==
    /\ pc = "signaling"
    /\ ligand_effects' = LigandEffects
    /\ pair_map' = PairMap
    /\ pc' = "plan"
    /\ UNCHANGED <<ctlV, grnV, traj_per_sample, timepoints, steps_per_tp,
                   dispersion, loopV, simV, derivedV, accV, outV>>

(* lines 380-395 *)
Plan ==
    /\ pc = "plan"
    /\ traj_per_sample' =
          TrajPerSample(args.total_cells, args.n_timepoints, args.n_samples)
    /\ timepoints' = Timepoints(args.n_timepoints, args.hours_per_timepoint)
    /\ steps_per_tp' = StepsPerTp(args.hours_per_timepoint, args.dt)
    /\ IF NotDivisible(args.hours_per_timepoint, args.dt)
       THEN error' = "ValueError" /\ pc' = "raised"
       ELSE error' = error /\ pc' = "dispersion"
    /\ UNCHANGED <<ctlV, grnV, ligand_effects, pair_map, dispersion, loopV,
                   simV, derivedV, accV, transition, out_dir, files>>

(* lines 397-407 *)
DrawDispersion ==
    /\ pc = "dispersion"
    /\ dispersion' = Dispersion
    /\ Consume(<< <<"dispersion">> >>)
    /\ offset' = 0
    /\ sample_idx' = 0
    /\ pc' = "loop"
    /\ UNCHANGED <<args, grnV, ligand_effects, pair_map, traj_per_sample,
                   timepoints, steps_per_tp, morphogen, lineage_bias, simV,
                   derivedV, accV, outV>>

(* lines 408-416 *)
SampleMorphogen ==
    /\ pc = "loop"
    /\ sample_idx < args.n_samples
    /\ n_cells' = traj_per_sample[sample_idx + 1]
    /\ lineage_bias' = Dirichlet
    /\ morphogen' = Morphogen(Dirichlet, args.morphogen_scale)
    /\ Consume(<< <<"morphogen", sample_idx>> >>)
    /\ pc' = "sim_init"
    /\ UNCHANGED <<args, grnV, setupV, sample_idx, offset, x, snapshots, step,
                   snapshot_idx, neighbor_idx, h, reg, written, derivedV, accV,
                   outV>>

(* simulate_sample, lines 227-262 *)
SimInit ==
    /\ pc = "sim_init"
    /\ LET x0 == InitialX(n_cells, args.x_max)
       IN  /\ x' = x0
           /\ snapshots' = InitialSnapshots(n_cells, Len(timepoints), x0)
    /\ written' = << <<0, 0>> >>
    /\ step' = 0
    /\ snapshot_idx' = 1
    /\ neighbor_idx' = NoNeighbors
    /\ h' = <<>> /\ reg' = <<>>
    /\ Consume(Tags(7, <<"init", sample_idx>>))
    /\ pc' = "sim_neighbors"
    /\ UNCHANGED <<args, grnV, setupV, loopV, n_cells, derivedV, accV, outV>>

(* simulate_sample, lines 264-274 *)
SimNeighbors ==
    /\ pc = "sim_neighbors"
    /\ neighbor_idx' = NeighborIdx(n_cells, args.neighbor_mode, args.neighbor_k)
    /\ Consume(IF NeighborIdx(n_cells, args.neighbor_mode, args.neighbor_k) = NoNeighbors
               THEN <<>> ELSE Tags(n_cells, <<"neighbor", sample_idx>>))
    /\ pc' = "sim_loop"
    /\ UNCHANGED <<args, grnV, setupV, loopV, n_cells, x, snapshots, step,
                   snapshot_idx, h, reg, written, derivedV, accV, outV>>

(* simulate_sample, lines 276-297: one iteration of the step loop *)
SimStep ==
    /\ pc = "sim_loop"
    /\ step < TotalSteps
    /\ LET hh == HillOf(x)
           rr == MatMul(hh, Transpose(W))
           xn == StepX(x, rr, n_cells, neighbor_idx, ligand_effects, morphogen)
       IN  /\ h' = hh
           /\ reg' = rr
           /\ x' = xn
           /\ IF SnapshotDue(step, steps_per_tp)
              THEN /\ snapshots' = [c \in DOMAIN snapshots |->
                                      [snapshots[c] EXCEPT ![snapshot_idx] = xn[c]]]
                   /\ written' = Append(written, <<snapshot_idx, step + 1>>)
                   /\ snapshot_idx' = snapshot_idx + 1
              ELSE UNCHANGED <<snapshots, written, snapshot_idx>>
    /\ step' = step + 1
    /\ Consume(<< <<"noise", sample_idx>> >>)
    /\ UNCHANGED <<pc, args, grnV, setupV, loopV, n_cells, neighbor_idx,
                   derivedV, accV, outV>>

(* simulate_sample, line 299, and line 436 *)
SimReturn ==
    /\ pc = "sim_loop"
    /\ step = TotalSteps
    /\ snapshot_flat' = Reshape(snapshots, n_cells, args.n_timepoints)
    /\ pc' = "counts"
    /\ UNCHANGED <<ctlV, grnV, setupV, loopV, simV, counts, lineage_id,
                   fate_probs, accV, outV>>

(* lines 437-444 *)
Counts ==
    /\ pc = "counts"
    /\ counts' = latent_to_counts(snapshot_flat, dispersion, args.dropout_mid,
                                  args.dropout_scale)
    /\ X_blocks' = Append(X_blocks, counts')
    /\ Consume(CountTags(sample_idx))
    /\ pc' = "lineage"
    /\ UNCHANGED <<args, grnV, setupV, loopV, simV, snapshot_flat, lineage_id,
                   fate_probs, fate_blocks, obs_records, src_indices,
                   tgt_indices, weights, outV>>

(* lines 446-453 *)
LabelSample ==
    /\ pc = "lineage"
    /\ LET res == assign_lineage(snapshot_flat, lineage, n_lineages,
                                 lineage_tfs_per, args.lineage_threshold)
       IN  /\ lineage_id' = res.lineage_id
           /\ fate_probs' = res.probs
           /\ fate_blocks' = Append(fate_blocks, res.probs)
    /\ pc' = "record"
    /\ UNCHANGED <<ctlV, grnV, setupV, loopV, simV, snapshot_flat, counts,
                   X_blocks, obs_records, src_indices, tgt_indices, weights,
                   outV>>

(* lines 455-486, and the increment of sample_idx by the for statement *)
RecordSample ==
    /\ pc = "record"
    /\ LET src == SrcRows(n_cells, args.n_timepoints, offset)
       IN  /\ src_indices' = Append(src_indices, src)
           /\ tgt_indices' = Append(tgt_indices, [i \in DOMAIN src |-> src[i] + 1])
           /\ weights' = Append(weights, [i \in DOMAIN src |-> Unit])
    /\ obs_records' = Append(obs_records,
                             ObsRows(n_cells, args.n_timepoints, sample_idx,
                                     timepoints, lineage_id))
    /\ offset' = offset + n_cells * args.n_timepoints
    /\ sample_idx' = sample_idx + 1
    /\ pc' = "loop"
    /\ UNCHANGED <<ctlV, grnV, setupV, morphogen, lineage_bias, simV, derivedV,
                   X_blocks, fate_blocks, outV>>

(* lines 488-504 *)
Assemble ==
    /\ pc = "loop"
    /\ sample_idx = args.n_samples
    /\ transition' = TransitionMatrix(Len(Flatten(X_blocks)), Flatten(src_indices),
                                      Flatten(tgt_indices), Flatten(weights))
    /\ pc' = "import"
    /\ UNCHANGED <<ctlV, grnV, setupV, loopV, simV, derivedV, accV, out_dir,
                   files, error>>

(* lines 506-528: the import of anndata succeeds or raises ImportError *)
ImportAnndata ==
    /\ pc = "import"
    /\ \/ pc' = "makedirs" /\ error' = error
       \/ pc' = "raised" /\ error' = "ImportError"
    /\ UNCHANGED <<ctlV, grnV, setupV, loopV, simV, derivedV, accV, transition,
                   out_dir, files>>

(* line 530 *)
MakeDirs ==
    /\ pc = "makedirs"
    /\ out_dir' = TRUE
    /\ pc' = "write_full"
    /\ UNCHANGED <<ctlV, grnV, setupV, loopV, simV, derivedV, accV, transition,
                   files, error>>

(* lines 531-532 *)
WriteFull ==
    /\ pc = "write_full"
    /\ files' = Append(files, [name |-> "synthetic_full.h5ad",
                               rows |-> Len(Flatten(obs_records))])
    /\ pc' = "write_train"
    /\ UNCHANGED <<ctlV, grnV, setupV, loopV, simV, derivedV, accV, transition,
                   out_dir, error>>

(* lines 534-547: the rows outside the held-out lineage after the branch *)
WriteTrain ==
    /\ pc = "write_train"
    /\ files' = Append(files,
          [name |-> "synthetic_train.h5ad",
           rows |-> Len(SelectSeq(Flatten(obs_records),
                        LAMBDA o : ~(/\ o.lineage_id = args.holdout_lineage
                                     /\ o.timepoint_idx >= args.branch_timepoint_index)))])
    /\ pc' = "write_grn"
    /\ UNCHANGED <<ctlV, grnV, setupV, loopV, simV, derivedV, accV, transition,
                   out_dir, error>>

(* lines 549-564 *)
WriteGrn ==
    /\ pc = "write_grn"
    /\ files' = Append(files, [name |-> "synthetic_grn.json",
                               rows |-> Len(edge_list)])
    /\ pc' = "done"
    /\ UNCHANGED <<ctlV, grnV, setupV, loopV, simV, derivedV, accV, transition,
                   out_dir, error>>

NextMain ==
    \/ BuildGrn
    \/ BuildSignaling
    \/ Plan
    \/ DrawDispersion
    \/ SampleMorphogen
    \/ SimInit
    \/ SimNeighbors
    \/ SimStep
    \/ SimReturn
    \/ Counts
    \/ LabelSample
    \/ RecordSample
    \/ Assemble
    \/ ImportAnndata
    \/ MakeDirs
    \/ WriteFull
    \/ WriteTrain
    \/ WriteGrn

SpecMain == InitMain /\ [][NextMain]_vars

(* ============ simulate_sample with every outcome of rng.choice ============ *)
(* one sample of 1..MaxNeighborCells trajectories and three timepoints of   *)
(* one step each, with neighbor_k below, at and above n_cells - 1            *)
NeighborArgs ==
    {[seed |-> 0, total_cells |-> nc * 3, n_samples |-> 1,
      n_timepoints |-> 3, hours_per_timepoint |-> TimeUnit, dt |-> TimeUnit,
      branch_timepoint_index |-> 1, holdout_lineage |-> n_lineages,
      lineage_threshold |-> 120, dropout_mid |-> 100, dropout_scale |-> 60,
      x_max |-> 600, hill_k |-> 100, hill_n |-> 2, morphogen_scale |-> 60,
      neighbor_mode |-> md, neighbor_k |-> nk, neighbor_mix |-> 50] :
        nc \in 1..MaxNeighborCells, md \in {"none", "random"},
        nk \in {0, 1, 2, MaxNeighborCells}}

InitNeighbors ==
    /\ pc = "start"
    /\ args \in NeighborArgs
    /\ rng = [seed |-> args.seed, calls |-> 0]
    /\ Unassigned

(* simulate_sample, lines 264-274, the draws left open *)
SimNeighborsDrawn ==
    /\ pc = "sim_neighbors"
    /\ IF args.neighbor_mode = "random"
          /\ ~(args.neighbor_k <= 0 \/ n_cells <= 1)
       THEN /\ \E nidx \in NeighborOutcomes(n_cells,
                                  Min(args.neighbor_k, n_cells - 1)) :
                  neighbor_idx' = nidx
            /\ Consume(Tags(n_cells, <<"neighbor", sample_idx>>))
       ELSE /\ neighbor_idx' = NoNeighbors
            /\ Consume(<<>>)
    /\ pc' = "sim_loop"
    /\ UNCHANGED <<args, grnV, setupV, loopV, n_cells, x, snapshots, step,
                   snapshot_idx, h, reg, written, derivedV, accV, outV>>

NextNeighbors ==
    \/ BuildGrn
    \/ BuildSignaling
    \/ Plan
    \/ DrawDispersion
    \/ SampleMorphogen
    \/ SimInit
    \/ SimNeighborsDrawn
    \/ SimStep
    \/ SimReturn

SpecNeighbors == InitNeighbors /\ [][NextNeighbors]_vars

(* ======================= assign_lineage on its own ======================= *)
(* the latent values of the lineage TFs, and the thresholds, the call is    *)
(* explored on                                                              *)
LineageValues == {90, 120, 150}
Thresholds == {105, 120, 135}

InitLineage ==
    /\ pc = "lineage_call"
    /\ args \in {[lineage_threshold |-> t] : t \in Thresholds}
    /\ rng = [seed |-> 0, calls |-> 0]
    /\ \E v \in [Range(lineage) -> LineageValues] :
          /\ snapshot_flat = << [g \in Genes |->
                                   IF g \in Range(lineage) THEN v[g] ELSE 0] >>
          /\ rows = <<>> /\ cols = <<>> /\ data = <<>> /\ edge_list = <<>>
          /\ rand_iter = 0
          /\ W = NoMatrix
          /\ ligand_effects = <<>> /\ pair_map = <<>>
          /\ traj_per_sample = <<>> /\ timepoints = <<>> /\ steps_per_tp = 0
          /\ dispersion = <<>>
          /\ sample_idx = 0 /\ offset = 0 /\ morphogen = <<>>
          /\ lineage_bias = <<>>
          /\ n_cells = 0 /\ x = <<>> /\ snapshots = <<>> /\ step = 0
          /\ snapshot_idx = 0 /\ neighbor_idx = NoNeighbors /\ h = <<>> /\ reg = <<>>
          /\ written = <<>>
          /\ counts = <<>> /\ lineage_id = <<>> /\ fate_probs = <<>>
          /\ X_blocks = <<>> /\ fate_blocks = <<>> /\ obs_records = <<>>
          /\ src_indices = <<>> /\ tgt_indices = <<>> /\ weights = <<>>
          /\ transition = <<>> /\ out_dir = FALSE /\ files = <<>>
          /\ error = None
          /\ draw_log = <<>>

(* lines 321-342 *)
AssignLineageCall ==
    /\ pc = "lineage_call"
    /\ LET res == assign_lineage(snapshot_flat, lineage, n_lineages,
                                 lineage_tfs_per, args.lineage_threshold)
       IN  /\ lineage_id' = res.lineage_id
           /\ fate_probs' = res.probs
    /\ pc' = "lineage_returned"
    /\ UNCHANGED <<ctlV, grnV, setupV, loopV, simV, snapshot_flat, counts, accV,
                   outV>>

NextLineage == AssignLineageCall

SpecLineage == InitLineage /\ [][NextLineage]_vars

(* ======================= properties of build_grn ======================= *)

(* the records of the exported edge list from gene s to gene d *)
EdgeRecords(s, d) ==
    SelectSeq(edge_list,
              LAMBDA e : e.source = NameOf(s) /\ e.target = NameOf(d))

EdgeWeightSum(s, d) ==
    SumSeq([i \in 1..Len(EdgeRecords(s, d)) |-> EdgeRecords(s, d)[i].weight])

RandomEdges == SelectSeq(edge_list, LAMBDA e : e.type = "random")

(* C3: once the adjacency is materialised, the weight stored for every     *)
(* (source, target) pair, at row target and column source, is the sum of   *)
(* the weights of all edge records of that pair, and 0 where there is none *)
C3_DuplicateEdgesAccumulate ==
    pc = "built" =>
        \A s \in Genes, d \in Genes : W[d][s] = EdgeWeightSum(s, d)

(* a random edge landed on a pair that already had a mutual-activation edge *)
C3_Witness ==
    /\ pc = "built"
    /\ \E i, j \in DOMAIN edge_list :
          /\ edge_list[i].type = "prog_mutual"
          /\ edge_list[j].type = "random"
          /\ edge_list[i].source = edge_list[j].source
          /\ edge_list[i].target = edge_list[j].target

(* C7 as stated: construction ends with exactly NRandomIters (200 in the   *)
(* program) edges of type "random", each between two distinct genes        *)
C7_ExactlyAllRandomEdges ==
    pc = "built" =>
        /\ Len(RandomEdges) = NRandomIters
        /\ \A i \in DOMAIN RandomEdges :
               RandomEdges[i].source # RandomEdges[i].target

(* C7 amended: the loop runs NRandomIters times and adds at most one       *)
(* "random" edge per iteration, so at most NRandomIters in all, and every  *)
(* "random" edge joins two distinct genes                                  *)
C7_AtMostAllRandomEdges ==
    /\ Len(RandomEdges) <= rand_iter
    /\ rand_iter <= NRandomIters
    /\ (pc = "built" => rand_iter = NRandomIters)
    /\ \A i \in DOMAIN RandomEdges :
           RandomEdges[i].source # RandomEdges[i].target

(* a run in which some draws collided and some did not *)
C7_Witness ==
    /\ pc = "built"
    /\ Len(RandomEdges) > 0
    /\ Len(RandomEdges) < NRandomIters

(* ======================= properties of main ======================= *)
SimPcs == {"sim_neighbors", "sim_loop", "counts", "lineage", "record"}

(* C1: every value of the snapshot tensor, at every cell, timepoint        *)
(* (timepoint 0 included) and gene, lies in [0, x_max], after any number   *)
(* of steps; x_max >= 0                                                    *)
C1_LatentBound ==
    /\ \A c \in DOMAIN snapshots : \A t \in DOMAIN snapshots[c] :
          \A g \in Genes :
             snapshots[c][t][g] >= 0 /\ snapshots[c][t][g] <= args.x_max
    /\ \A r \in DOMAIN snapshot_flat : \A g \in Genes :
          snapshot_flat[r][g] >= 0 /\ snapshot_flat[r][g] <= args.x_max

(* the returned tensor holds both bounds at a timepoint after the first *)
C1_Witness ==
    /\ pc = "counts"
    /\ step >= 2
    /\ \E c \in DOMAIN snapshots, g \in Genes :
          snapshots[c][Len(timepoints) - 1][g] = args.x_max
    /\ \E c \in DOMAIN snapshots, g \in Genes :
          snapshots[c][Len(timepoints) - 1][g] = 0

(* C8: the integrator makes (n_timepoints - 1) * steps_per_tp steps; slot 0 *)
(* is written with the clipped initial state and slot t after exactly      *)
(* t * steps_per_tp steps, each slot once, in increasing order, never past *)
(* n_timepoints - 1; a slot holds the state of the moment it was written   *)
C8_ScheduleNow ==
    pc \in SimPcs =>
        /\ step <= TotalSteps
        /\ (pc # "sim_neighbors" /\ pc # "sim_loop" => step = TotalSteps)
        /\ Len(written) <= Len(timepoints)
        /\ snapshot_idx = Len(written)
        /\ \A i \in DOMAIN written :
              written[i] = <<i - 1, (i - 1) * steps_per_tp>>
        /\ Len(written) = 1 + step \div steps_per_tp
        /\ (step = written[Len(written)][2] =>
               \A c \in DOMAIN x : snapshots[c][Len(written) - 1] = x[c])

C8_SlotsKept ==
    pc \in SimPcs /\ pc' \in SimPcs =>
        \A c \in DOMAIN snapshots : \A i \in DOMAIN written :
            snapshots'[c][i - 1] = snapshots[c][i - 1]

C8_SnapshotSchedule == [](C8_ScheduleNow) /\ [][C8_SlotsKept]_vars

(* a sample returned after several steps per timepoint and several slots *)
C8_Witness ==
    /\ pc = "counts"
    /\ steps_per_tp >= 2
    /\ Len(timepoints) >= 3
    /\ written[Len(written)] = <<Len(timepoints) - 1, TotalSteps>>

(* the gene index of a name of the edge list *)
IndexOf(name) == CHOOSE g \in Genes : NameOf(g) = name

(* the regulatory input of gene g in cell c from the edge list: the sum of *)
(* h[source] * weight over the records whose target is g                   *)
EdgeInput(c, g) ==
    LET into == SelectSeq(edge_list, LAMBDA e : e.target = NameOf(g))
    IN  SumSeq([i \in 1..Len(into) |->
                   h[c][IndexOf(into[i].source)] * into[i].weight])

(* C9: in every step the regulatory input of every gene g is the sum over  *)
(* the edges (s -> g) added by add_edge(src=s, dst=g, w) of h[s] * w; the  *)
(* edge does not feed the input of its source                              *)
C9_EdgeOrientation ==
    (pc \in SimPcs /\ step > 0) =>
        \A c \in DOMAIN reg : \A g \in Genes : reg[c][g] = EdgeInput(c, g)

(* a step in which an active lineage TF represses a program TF through an  *)
(* edge whose reverse has another weight                                   *)
C9_Witness ==
    /\ pc = "sim_loop"
    /\ step > 0
    /\ \E c \in DOMAIN h, i \in DOMAIN edge_list :
          /\ edge_list[i].type = "lineage_repress_prog"
          /\ h[c][IndexOf(edge_list[i].source)] > 0
          /\ reg[c][IndexOf(edge_list[i].target)]
                # reg[c][IndexOf(edge_list[i].source)]

(* the value of the morphogen on the TFs of lineage l *)
MorphogenOn(l) == Mul(args.morphogen_scale, lineage_bias[l])

(* C10 as stated: the bias vector of a sample is nonzero only on the TFs   *)
(* of a single lineage, where it is that lineage's weight times the scale  *)
C10_OneLineageOnly ==
    pc \in SimPcs =>
        \E l \in 0..(n_lineages - 1) :
            \A g \in Genes :
                morphogen[g] = IF g \in Range(TfIndices(l))
                               THEN MorphogenOn(l) ELSE 0

(* C10 amended: the bias vector is zero on every gene that is not a        *)
(* lineage TF and, on the TF block of every lineage, it is that lineage's  *)
(* Dirichlet weight times morphogen_scale; it is constant over the steps   *)
C10_SupportNow ==
    pc \in SimPcs =>
        /\ \A g \in Genes : g \notin Range(lineage) => morphogen[g] = 0
        /\ \A l \in 0..(n_lineages - 1) : \A g \in Range(TfIndices(l)) :
              morphogen[g] = MorphogenOn(l)

C10_Constant == pc \in SimPcs /\ pc' \in SimPcs => morphogen' = morphogen

C10_EveryLineageBlock == [](C10_SupportNow) /\ [][C10_Constant]_vars

(* a sample in mid-simulation whose bias is nonzero on two lineages *)
C10_Witness ==
    /\ pc = "sim_loop"
    /\ step > 0
    /\ morphogen[TfIndices(0)[1]] > 0
    /\ morphogen[TfIndices(1)[1]] > 0
    /\ morphogen[TfIndices(0)[1]] # morphogen[TfIndices(1)[1]]

(* the place of a draw in the order of the claim: the sample (none for the *)
(* draws made once per run) and the phase                                  *)
PhaseRank == [network |-> 1, signaling |-> 2, dispersion |-> 3,
              morphogen |-> 4, init |-> 5, neighbor |-> 6, noise |-> 6,
              count |-> 7, dropout |-> 8]

DrawKey(tag) == <<IF Len(tag) = 1 THEN -1 ELSE tag[2], PhaseRank[tag[1]]>>

KeyLeq(a, b) == a[1] < b[1] \/ (a[1] = b[1] /\ a[2] <= b[2])

(* C6: the calls on the generator come in the order network construction,  *)
(* (signaling construction, which draws nothing,) dispersion, then sample  *)
(* by sample: morphogen, initial state, neighbor sampling and step noise,  *)
(* count draws, dropout draws                                              *)
C6_DrawOrder ==
    /\ Len(draw_log) = rng.calls
    /\ \A i \in DOMAIN draw_log :
          i > 1 => KeyLeq(DrawKey(draw_log[i - 1]), DrawKey(draw_log[i]))

(* a finished run of two samples that drew neighbors, noise and dropout *)
C6_Witness ==
    /\ pc = "done"
    /\ <<"neighbor", 0>> \in Range(draw_log)
    /\ \A s \in {0, 1} :
          {<<"morphogen", s>>, <<"init", s>>, <<"noise", s>>, <<"count", s>>,
           <<"dropout", s>>} \subseteq Range(draw_log)

AllObs == Flatten(obs_records)

HasTransition == pc \in {"import", "makedirs", "write_full", "write_train",
                         "write_grn", "done"}

(* C4: the transition matrix has weight 1.0 from row r to row r + 1 exactly *)
(* when r is a trajectory's timepoint t < n_timepoints - 1, and r + 1 is    *)
(* then timepoint t + 1 of the same trajectory of the same sample; every    *)
(* other entry is 0                                                         *)
C4_TrajectoryGraph ==
    HasTransition =>
        /\ DOMAIN transition = 0..(Len(AllObs) - 1)
        /\ \A r \in DOMAIN transition : \A q \in DOMAIN transition :
              /\ transition[r][q] \in {0, Unit}
              /\ transition[r][q] = Unit <=>
                    (q = r + 1 /\ AllObs[r + 1].timepoint_idx < args.n_timepoints - 1)
              /\ transition[r][q] = Unit =>
                    /\ AllObs[q + 1].sample = AllObs[r + 1].sample
                    /\ AllObs[q + 1].traj = AllObs[r + 1].traj
                    /\ AllObs[q + 1].timepoint_idx = AllObs[r + 1].timepoint_idx + 1

(* two samples, one of them with two trajectories of three timepoints *)
C4_Witness ==
    /\ pc = "done"
    /\ args.n_samples = 2
    /\ args.n_timepoints = 3
    /\ \E r \in DOMAIN transition : transition[r][r + 1] = Unit
    /\ \E r \in DOMAIN AllObs : AllObs[r].sample = 1 /\ AllObs[r].traj = 0
    /\ \E r \in DOMAIN AllObs : AllObs[r].sample = 0 /\ AllObs[r].traj = 1

(* nothing was simulated and nothing was written *)
NoOutput ==
    /\ out_dir = FALSE
    /\ files = <<>>
    /\ snapshots = <<>> /\ x = <<>> /\ X_blocks = <<>>

BeforeSamples == pc \in {"start", "signaling", "plan", "raised"}

C2_LabelDomain ==
    pc = "lineage_returned" =>
        \A r \in DOMAIN snapshot_flat :
            LET sc == Scores(snapshot_flat, lineage, n_lineages,
                             lineage_tfs_per)[r]
                lab == lineage_id[r]
            IN  /\ lab \in 0..n_lineages
                /\ lab = 0 <=> \A l \in DOMAIN sc : sc[l] < args.lineage_threshold
                /\ lab # 0 =>
                      /\ \A l \in DOMAIN sc : sc[l] <= sc[lab - 1]
                      /\ \A l \in DOMAIN sc : l < lab - 1 => sc[l] < sc[lab - 1]

(* the largest score equals the threshold and belongs to the second lineage *)
C2_Witness ==
    /\ pc = "lineage_returned"
    /\ lineage_id[1] = 2
    /\ Scores(snapshot_flat, lineage, n_lineages, lineage_tfs_per)[1][1]
          = args.lineage_threshold

(* ---------------------------------------------------------------------- *)
(* C11: in neighbor mode "random" with neighbor_k > 0 and n_cells > 1,     *)
(* every cell i has exactly min(neighbor_k, n_cells - 1) neighbor indices, *)
(* pairwise distinct, inside 0..n_cells-1 and never i; the indices are     *)
(* drawn once, before the first step, and no step changes them             *)
NeighborsOn ==
    args.neighbor_mode = "random" /\ args.neighbor_k > 0 /\ n_cells > 1

NeighborDraws ==
    {j \in DOMAIN draw_log : draw_log[j] = <<"neighbor", sample_idx>>}

C11_AssignedNow ==
    (pc \in {"sim_loop", "counts"} /\ NeighborsOn) =>
        LET k == Min(args.neighbor_k, n_cells - 1)
        IN  /\ DOMAIN neighbor_idx = 0..(n_cells - 1)
            /\ Cardinality(NeighborDraws) = n_cells
            /\ \A i \in 0..(n_cells - 1) :
                  /\ DOMAIN neighbor_idx[i] = 1..k
                  /\ \A a \in 1..k :
                        /\ neighbor_idx[i][a] \in 0..(n_cells - 1)
                        /\ neighbor_idx[i][a] # i
                  /\ \A a, b \in 1..k :
                        a # b => neighbor_idx[i][a] # neighbor_idx[i][b]

C11_NeverResampled ==
    neighbor_idx' # neighbor_idx => (pc = "sim_neighbors" /\ step = 0)

C11_NeighborSampling ==
    [](C11_AssignedNow) /\ [][C11_NeverResampled]_vars

(* the largest sample, neighbor_k above n_cells - 1, after the last step, *)
(* with a neighbor of cell 0 that the shift moved past the cell itself    *)
C11_Witness ==
    /\ pc = "sim_loop"
    /\ NeighborsOn
    /\ n_cells = MaxNeighborCells
    /\ args.neighbor_k > n_cells - 1
    /\ step = TotalSteps
    /\ step >= 2
    /\ Len(neighbor_idx[0]) = n_cells - 1
    /\ neighbor_idx[0][1] = n_cells - 1
    /\ neighbor_idx[n_cells - 1][1] = 0

====
